---- MODULE Spec2Model ----
(***************************************************************************)
(* Saros DLMM dashboard: the health classifier (calculateHealth), the      *)
(* recommendation engines (generateRebalanceRecommendations) with their    *)
(* active-bin lookup (findActiveBin), the strategy simulators              *)
(* (simulateStrategy) and the snapshot builders (getPortfolioData) of the  *)
(* data services, as state machines over the values the services compute;  *)
(* and the App component with WalletService.connect, as a state machine    *)
(* over its React state, Phantom's events and its async calls in flight.   *)
(*                                                                         *)
(* Numbers.  Bin ids are integers.  unclaimedFees is kept in integer       *)
(* cents and pnlPercentage in integer hundredths of a percent, so the      *)
(* source's thresholds 50 and -10 read 5000 and -1000 here.  A quotient    *)
(* of two integers is kept exactly (numerator, denominator) together with  *)
(* the three IEEE-754 outcomes of a division by zero (NaN, +Infinity,      *)
(* -Infinity): for the integer operands that occur, comparing the double   *)
(* (m / r) * 100 with 10, 20 or 30 agrees with comparing the exact         *)
(* quotient.                                                               *)
(***************************************************************************)
EXTENDS Integers, Sequences, FiniteSets, TLC

VARIABLES
    health,           \* the last calculateHealth call: service, arguments, grade
    positions,        \* the Position[] handed to generateRebalanceRecommendations
    engine,           \* the service whose engine produced `recommendations`
    recommendations,  \* the list the last generateRebalanceRecommendations call returned
    now,              \* Date.now()
    simulation,       \* the last simulateStrategy call: service, arguments, outcome
    portfolio,        \* the last getPortfolioData call: service, what the data
                      \* sources answer, outcome, the PortfolioData returned
    lookup,           \* the last findActiveBin call: service, distribution, result
    app               \* the App component: Phantom, React state, async calls in flight

vars == <<health, positions, engine, recommendations, now, simulation, portfolio, lookup, app>>

---------------------------------------------------------------------------
(* Bounds of the model *)

\* bin ids handed to calculateHealth range over 0..MaxBin
MaxBin == 12
\* the positions array holds at most MaxPositions positions
MaxPositions == 3
\* a binDistribution handed to findActiveBin holds at most MaxDistribution bins
MaxDistribution == 3
\* at most MaxLoads loadPortfolioData calls are in flight at once
MaxLoads == 2
\* a data source answers with at most MaxFetched positions
MaxFetched == 2
\* Date.now() ranges over 0..MaxClock
MaxClock == 2
\* Math.random() ranges over k / RandomSteps, k in 0..RandomSteps - 1
RandomSteps == 4

---------------------------------------------------------------------------
(* IEEE-754 quotients *)

NaN == [kind |-> "nan", num |-> 0, den |-> 1]
PosInfinity == [kind |-> "pinf", num |-> 0, den |-> 1]
NegInfinity == [kind |-> "ninf", num |-> 0, den |-> 1]

\* n / d of two integers: exact when d # 0, else NaN (0/0) or a signed infinity
Divide(n, d) ==
    IF d = 0
    THEN IF n = 0 THEN NaN ELSE IF n > 0 THEN PosInfinity ELSE NegInfinity
    ELSE IF d > 0 THEN [kind |-> "fin", num |-> n, den |-> d]
                  ELSE [kind |-> "fin", num |-> -n, den |-> -d]

\* q * k for an integer k > 0: NaN and the infinities are kept
Times(q, k) == IF q.kind = "fin" THEN [q EXCEPT !.num = q.num * k] ELSE q

\* q > k: false for NaN, whatever k
GreaterThan(q, k) ==
    CASE q.kind = "nan" -> FALSE
      [] q.kind = "pinf" -> TRUE
      [] q.kind = "ninf" -> FALSE
      [] OTHER -> q.num > k * q.den

\* q < k: false for NaN, whatever k
LessThan(q, k) ==
    CASE q.kind = "nan" -> FALSE
      [] q.kind = "pinf" -> FALSE
      [] q.kind = "ninf" -> TRUE
      [] OTHER -> q.num < k * q.den

MathMin(a, b) == IF a <= b THEN a ELSE b
MathMaxOf(a, b) == IF a >= b THEN a ELSE b

---------------------------------------------------------------------------
(* Health classifier: three copies of calculateHealth *)

\* the farther edge instead of the nearer one
minDistanceFarEdge(activeBin, lowerBin, upperBin) ==
    MathMaxOf(activeBin - lowerBin, upperBin - activeBin)

\* the distance from the lower edge alone (the Math.min forgotten)
minDistanceFromLowerOnly(activeBin, lowerBin, upperBin) == activeBin - lowerBin

\* const minDistance = Math.min(distanceFromLower, distanceFromUpper)
minDistance(activeBin, lowerBin, upperBin) ==
    LET distanceFromLower == activeBin - lowerBin
        distanceFromUpper == upperBin - activeBin
    IN  MathMin(distanceFromLower, distanceFromUpper)

\* const healthRatio = (minDistance / range) * 100
healthRatio(activeBin, lowerBin, upperBin) ==
    LET range == upperBin - lowerBin
    IN  Times(Divide(minDistance(activeBin, lowerBin, upperBin), range), 100)

\* thresholds written as negated <= tests: a NaN ratio passes the first one
gradeOfRatioNegated(ratio) ==
    IF ~(ratio.kind # "nan" /\ ~GreaterThan(ratio, 30)) THEN "Excellent"
    ELSE IF ~(~GreaterThan(ratio, 20)) THEN "Good"
    ELSE IF ~(~GreaterThan(ratio, 10)) THEN "Fair"
    ELSE "Poor"

\* thresholds that include their boundary (>= for >)
gradeOfRatioInclusive(ratio) ==
    IF ratio.kind # "nan" /\ ~LessThan(ratio, 30) THEN "Excellent"
    ELSE IF ratio.kind # "nan" /\ ~LessThan(ratio, 20) THEN "Good"
    ELSE IF ratio.kind # "nan" /\ ~LessThan(ratio, 10) THEN "Fair"
    ELSE "Poor"

\* if (healthRatio > 30) return 'Excellent'; ... return 'Poor'
gradeOfRatio(ratio) ==
    IF GreaterThan(ratio, 30) THEN "Excellent"
    ELSE IF GreaterThan(ratio, 20) THEN "Good"
    ELSE IF GreaterThan(ratio, 10) THEN "Fair"
    ELSE "Poor"

\* SarosSdkService.calculateHealth: guarded against a zero-width range
SdkService_calculateHealth(activeBin, lowerBin, upperBin) ==
    LET range == upperBin - lowerBin
    IN  IF range = 0 THEN "Poor"
        ELSE gradeOfRatio(healthRatio(activeBin, lowerBin, upperBin))

\* SarosApiService.calculateHealth (REST service): divides without a guard
ApiService_calculateHealth(activeBin, lowerBin, upperBin) ==
    gradeOfRatio(healthRatio(activeBin, lowerBin, upperBin))

\* SarosApiService.calculateHealth (mock-fallback service): the same code
MockApiService_calculateHealth(activeBin, lowerBin, upperBin) ==
    gradeOfRatio(healthRatio(activeBin, lowerBin, upperBin))

---------------------------------------------------------------------------
(* The other components at rest *)

\* no simulateStrategy call has been made
NoSimulation ==
    [service |-> "none",
     position |-> [priceRange |-> [min |-> 0, max |-> 0, current |-> 0],
                   totalLiquidity |-> 0],
     strategy |-> "none", timeHorizon |-> "undefined",
     outcome |-> "none", error |-> "none", result |-> [strategy |-> "none"]]

\* what the data sources answer to one getPortfolioData call: the wallet's
\* public key (an object or null), REACT_APP_USE_MOCK_DATA, the SDK's
\* findPosition and the REST pool-position endpoint
DefaultFetch ==
    [publicKey |-> "key", useMockData |-> FALSE,
     findPosition |-> [kind |-> "throws", positions |-> <<>>],
     poolPositions |-> [kind |-> "throws", positions |-> <<>>]]

\* the PortfolioData slot of a call that returned none
NoData == [positions |-> <<>>]

\* no getPortfolioData call has been made
NoPortfolio ==
    [service |-> "none", fetch |-> DefaultFetch,
     outcome |-> "none", error |-> "none", origin |-> "none", data |-> NoData]

\* no findActiveBin call has been made
NoLookup == [service |-> "none", distribution |-> <<>>, result |-> 0]

\* useState<WalletState>({ connected: false, publicKey: null, connecting:
\* false, error: null }); the same value is set on a disconnect
DisconnectedState ==
    [connected |-> FALSE, publicKey |-> "null", connecting |-> FALSE, error |-> "null"]

\* the wallet's answer to connect(): none asked for yet
NoAnswer == [kind |-> "none", publicKey |-> "null", message |-> "undefined"]

\* the App before it is mounted, in a browser without Phantom
NoApp ==
    [wallet |-> [present |-> FALSE, isConnected |-> FALSE, publicKey |-> "null"],
     walletState |-> DisconnectedState,
     sarosService |-> "null",
     portfolioData |-> "null",
     loading |-> FALSE,
     error |-> "null",
     loads |-> <<>>,
     connectCall |-> [at |-> "idle", answer |-> NoAnswer],
     connectEvent |-> "null",
     disconnectCall |-> "idle",
     connectResult |-> [settled |-> "none", state |-> DisconnectedState,
                        answer |-> NoAnswer]]

---------------------------------------------------------------------------
(* The classifier's calls *)

Bins == 0..MaxBin

\* no calculateHealth call has been made
NoHealth ==
    [service |-> "none", activeBin |-> 0, lowerBin |-> 0, upperBin |-> 0, grade |-> "none"]

\* one call of a service's calculateHealth on the arguments at hand; the grade
\* it returns is recorded with the service that computed it
ClassifySdk ==
    /\ health' = [health EXCEPT
                    !.service = "sdk",
                    !.grade = SdkService_calculateHealth(
                                  health.activeBin, health.lowerBin, health.upperBin)]
    /\ UNCHANGED <<positions, engine, recommendations, now, simulation, portfolio, lookup, app>>

ClassifyApi ==
    /\ health' = [health EXCEPT
                    !.service = "api",
                    !.grade = ApiService_calculateHealth(
                                  health.activeBin, health.lowerBin, health.upperBin)]
    /\ UNCHANGED <<positions, engine, recommendations, now, simulation, portfolio, lookup, app>>

ClassifyMockApi ==
    /\ health' = [health EXCEPT
                    !.service = "mockapi",
                    !.grade = MockApiService_calculateHealth(
                                  health.activeBin, health.lowerBin, health.upperBin)]
    /\ UNCHANGED <<positions, engine, recommendations, now, simulation, portfolio, lookup, app>>

\* the arguments of the calls are any three bin ids (inverted ranges included)
InitHealth ==
    /\ \E activeBin \in Bins, lowerBin \in Bins, upperBin \in Bins :
           health = [NoHealth EXCEPT !.activeBin = activeBin,
                                     !.lowerBin = lowerBin, !.upperBin = upperBin]
    /\ positions = <<>>
    /\ engine = "none"
    /\ recommendations = <<>>
    /\ now = 0
    /\ app = NoApp
    /\ lookup = NoLookup
    /\ simulation = NoSimulation
    /\ portfolio = NoPortfolio

NextHealth == ClassifySdk \/ ClassifyApi \/ ClassifyMockApi

\* the classifier alone: calculateHealth calls of the three services
SpecHealth == InitHealth /\ [][NextHealth]_vars

---------------------------------------------------------------------------
(* Recommendation engine, bin domain: SarosApiService *)

Undefined == "undefined"

\* the filter written with || for &&: a bin with one side of liquidity counts
findActiveBinEitherSide(distribution) ==
    IF Len(distribution) = 0 THEN 0
    ELSE LET activeBins ==
                 SelectSeq(distribution,
                           LAMBDA b : b.liquidityX > 0 \/ b.liquidityY > 0)
         IN  IF Len(activeBins) > 0
             THEN activeBins[1].binId
             ELSE distribution[(Len(distribution) \div 2) + 1].binId

\* if (distribution.length === 0) return 0; the first bin with both
\* liquidities > 0, else the bin at index floor(length / 2)
findActiveBin(distribution) ==
    IF Len(distribution) = 0 THEN 0
    ELSE LET activeBins ==
                 SelectSeq(distribution,
                           LAMBDA b : b.liquidityX > 0 /\ b.liquidityY > 0)
         IN  IF Len(activeBins) > 0
             THEN activeBins[1].binId
             ELSE distribution[(Len(distribution) \div 2) + 1].binId

\* findActiveBin throws a TypeError on a value that is no array of bins:
\* distribution.length of undefined, b.liquidityX of a null element
findActiveBinThrows(position) == position.binDistributionKind # "array"

\* value.toFixed(2) throws a TypeError unless value is a number: a numeric
\* string compares like its number in > and < but has no toFixed
toFixedThrows(type) == type # "number"

\* the range taken without its two edge bins (<= and >= for < and >)
isOutOfRangeInclusive(activeBinId, position) ==
    activeBinId <= position.lowerBinId \/ activeBinId >= position.upperBinId

\* const isOutOfRange = activeBinId < position.lowerBinId || activeBinId > position.upperBinId
isOutOfRange(activeBinId, position) ==
    activeBinId < position.lowerBinId \/ activeBinId > position.upperBinId

\* the recommendation pushed when isOutOfRange
rebalanceRecommendation(position, activeBinId) ==
    [id |-> <<"rebalance", position.id, now>>,
     positionId |-> position.id,
     type |-> "rebalance",
     priority |-> "high",
     executionType |-> "shift_up",
     suggestedRange |-> [lowerBinId |-> activeBinId - 10,
                         upperBinId |-> activeBinId + 10]]

\* the fee threshold included (>= for >)
feeRuleFiresInclusive(position) == position.unclaimedFees >= 5000

\* if (position.unclaimedFees > 50), in cents
feeRuleFires(position) == position.unclaimedFees > 5000

\* the fee recommendation with a priority of its own (low for medium)
feeRecommendationLowPriority(position) ==
    [id |-> <<"fees", position.id, now>>,
     positionId |-> position.id,
     type |-> "expand",
     priority |-> "low",
     executionType |-> "add_liquidity",
     suggestedRange |-> Undefined]

\* the recommendation pushed when the fee rule fires
feeRecommendation(position) ==
    [id |-> <<"fees", position.id, now>>,
     positionId |-> position.id,
     type |-> "expand",
     priority |-> "medium",
     executionType |-> "add_liquidity",
     suggestedRange |-> Undefined]

\* the loss threshold included (<= for <)
lossRuleFiresInclusive(position) == position.pnlPercentage <= -1000

\* if (position.pnlPercentage < -10), in hundredths of a percent
lossRuleFires(position) == position.pnlPercentage < -1000

\* the recommendation pushed when the loss rule fires
exitRecommendation(position) ==
    [id |-> <<"close", position.id, now>>,
     positionId |-> position.id,
     type |-> "exit",
     priority |-> "high",
     executionType |-> "shift_down",
     suggestedRange |-> Undefined]

\* the three rules chained by else-if: the first rule that holds wins
analyzePositionFirstRuleOnly(position) ==
    LET activeBinId == findActiveBin(position.binDistribution)
    IN  IF isOutOfRange(activeBinId, position)
        THEN <<rebalanceRecommendation(position, activeBinId)>>
        ELSE IF feeRuleFires(position) THEN <<feeRecommendation(position)>>
        ELSE IF lossRuleFires(position) THEN <<exitRecommendation(position)>>
        ELSE <<>>

\* the try block of the loop body leaves by an exception: in the active-bin
\* lookup, or while building the reason string of a rule that fires
analyzePositionThrows(position) ==
    \/ findActiveBinThrows(position)
    \/ feeRuleFires(position) /\ toFixedThrows(position.unclaimedFeesType)
    \/ lossRuleFires(position) /\ toFixedThrows(position.pnlPercentageType)

\* the body of the for loop: what one position pushes, in push order.  Each
\* push goes straight to the returned array, and the catch block only logs:
\* what was pushed before an exception stays, the rules behind it are skipped
analyzePosition(position) ==
    IF findActiveBinThrows(position) THEN <<>>
    ELSE
    LET activeBinId == findActiveBin(position.binDistribution)
        afterRangeRule ==
            IF isOutOfRange(activeBinId, position)
            THEN <<rebalanceRecommendation(position, activeBinId)>> ELSE <<>>
        afterFeeRule ==
            afterRangeRule
            \o (IF feeRuleFires(position) THEN <<feeRecommendation(position)>> ELSE <<>>)
    IN  IF feeRuleFires(position) /\ toFixedThrows(position.unclaimedFeesType)
        THEN afterRangeRule
        ELSE IF lossRuleFires(position) /\ toFixedThrows(position.pnlPercentageType)
        THEN afterFeeRule
        ELSE afterFeeRule
             \o (IF lossRuleFires(position) THEN <<exitRecommendation(position)>> ELSE <<>>)

\* the try / catch around the whole loop instead of around its body: the
\* first exception ends the loop
RECURSIVE generateAbortingAtError(_)
generateAbortingAtError(input) ==
    IF input = <<>> THEN <<>>
    ELSE IF analyzePositionThrows(Head(input)) THEN analyzePosition(Head(input))
    ELSE analyzePosition(Head(input)) \o generateAbortingAtError(Tail(input))

\* for (const position of positions) { ... }  return recommendations
RECURSIVE ApiService_generateRebalanceRecommendations(_)
ApiService_generateRebalanceRecommendations(input) ==
    IF input = <<>> THEN <<>>
    ELSE analyzePosition(Head(input))
         \o ApiService_generateRebalanceRecommendations(Tail(input))

\* the mock-fallback service's engine: the same code, line for line
RECURSIVE MockApiService_generateRebalanceRecommendations(_)
MockApiService_generateRebalanceRecommendations(input) ==
    IF input = <<>> THEN <<>>
    ELSE analyzePosition(Head(input))
         \o MockApiService_generateRebalanceRecommendations(Tail(input))

---------------------------------------------------------------------------
(* Recommendation engine, price domain: RealSarosService *)

\* const rangeUtilization = (current - min) / (max - min)
rangeUtilization(position) ==
    Divide(position.priceRange.current - position.priceRange.min,
           position.priceRange.max - position.priceRange.min)

\* const { current, min, max } = position.priceRange throws a TypeError when
\* priceRange is undefined
recommendForPriceThrows(position) == position.priceRangeKind # "object"

\* the first two thresholds included (<= 0.1 for < 0.1, >= 0.9 for > 0.9)
recommendForPriceInclusive(position) ==
    IF recommendForPriceThrows(position) THEN <<>>
    ELSE
    LET u10 == Times(rangeUtilization(position), 10)
        current == position.priceRange.current
    IN  IF u10.kind # "nan" /\ ~GreaterThan(u10, 1)
        THEN <<[id |-> Undefined, positionId |-> position.id,
                type |-> "rebalance", priority |-> "high",
                executionType |-> "shift_up",
                suggestedRange |-> [min |-> current * 95, max |-> current * 115]]>>
        ELSE IF u10.kind # "nan" /\ ~LessThan(u10, 9)
        THEN <<[id |-> Undefined, positionId |-> position.id,
                type |-> "rebalance", priority |-> "high",
                executionType |-> "shift_down",
                suggestedRange |-> [min |-> current * 85, max |-> current * 105]]>>
        ELSE IF LessThan(u10, 2) \/ GreaterThan(u10, 8)
        THEN <<[id |-> Undefined, positionId |-> position.id,
                type |-> "expand", priority |-> "medium",
                executionType |-> Undefined,
                suggestedRange |-> Undefined]>>
        ELSE <<>>

\* the if / else-if chain of the loop body: at most one recommendation, none
\* when the destructuring throws (the catch block only logs).
\* u < 0.1 is 10u < 1, u > 0.9 is 10u > 9, and so on; suggested prices are
\* kept in hundredths (current * 0.95 is current * 95)
recommendForPrice(position) ==
    IF recommendForPriceThrows(position) THEN <<>>
    ELSE
    LET u10 == Times(rangeUtilization(position), 10)
        current == position.priceRange.current
    IN  IF LessThan(u10, 1)
        THEN <<[id |-> Undefined, positionId |-> position.id,
                type |-> "rebalance", priority |-> "high",
                executionType |-> "shift_up",
                suggestedRange |-> [min |-> current * 95, max |-> current * 115]]>>
        ELSE IF GreaterThan(u10, 9)
        THEN <<[id |-> Undefined, positionId |-> position.id,
                type |-> "rebalance", priority |-> "high",
                executionType |-> "shift_down",
                suggestedRange |-> [min |-> current * 85, max |-> current * 105]]>>
        ELSE IF LessThan(u10, 2) \/ GreaterThan(u10, 8)
        THEN <<[id |-> Undefined, positionId |-> position.id,
                type |-> "expand", priority |-> "medium",
                executionType |-> Undefined,
                suggestedRange |-> Undefined]>>
        ELSE <<>>

\* const priorityOrder = { high: 3, medium: 2, low: 1 }
priorityOrder(priority) ==
    CASE priority = "high" -> 3
      [] priority = "medium" -> 2
      [] priority = "low" -> 1

\* an insertion before the elements of equal weight: not stable
insertByPriorityBeforeEqual(sorted, r) ==
    LET k == Cardinality({i \in 1..Len(sorted) :
                 priorityOrder(sorted[i].priority) > priorityOrder(r.priority)})
    IN  SubSeq(sorted, 1, k) \o <<r>> \o SubSeq(sorted, k + 1, Len(sorted))

\* one step of the stable sort by (a, b) => priorityOrder[b.priority] -
\* priorityOrder[a.priority]: r goes behind every element of at least its weight
insertByPriority(sorted, r) ==
    LET k == Cardinality({i \in 1..Len(sorted) :
                 priorityOrder(sorted[i].priority) >= priorityOrder(r.priority)})
    IN  SubSeq(sorted, 1, k) \o <<r>> \o SubSeq(sorted, k + 1, Len(sorted))

\* recommendations.sort(...): Array.prototype.sort is stable (ECMAScript 2019)
RECURSIVE sortByPriority(_)
sortByPriority(list) ==
    IF list = <<>> THEN <<>>
    ELSE insertByPriority(sortByPriority(SubSeq(list, 1, Len(list) - 1)),
                          list[Len(list)])

\* the loop over the positions, before the sort
RECURSIVE collectForPrice(_)
collectForPrice(input) ==
    IF input = <<>> THEN <<>>
    ELSE recommendForPrice(Head(input)) \o collectForPrice(Tail(input))

RealService_generateRebalanceRecommendations(input) ==
    sortByPriority(collectForPrice(input))

---------------------------------------------------------------------------
(* The engines' calls *)

\* a bin of a binDistribution
Bin(binId, liquidityX, liquidityY) ==
    [binId |-> binId, liquidityX |-> liquidityX, liquidityY |-> liquidityY]

\* bin distributions around the range 100..120: none (active bin 0); a
\* both-sided bin on the lower edge (100) and just above the upper edge (121);
\* one-sided bins alone, whose middle element is the upper edge (120)
Distributions ==
    { <<>>,
      <<Bin(99, 500, 0), Bin(100, 250, 250), Bin(101, 0, 500)>>,
      <<Bin(120, 500, 0), Bin(121, 250, 250)>>,
      <<Bin(119, 500, 0), Bin(120, 500, 0), Bin(121, 0, 500)>> }

\* price ranges 0..10 with the current price at utilization 0, 0.1 and 0.5
PriceRanges == { [min |-> 0, max |-> 10, current |-> c] : c \in {0, 1, 5} }

\* a well-formed position: binDistribution an array of bins, unclaimedFees and
\* pnlPercentage numbers, priceRange an object
Position(id, binDistribution, unclaimedFees, pnlPercentage, priceRange) ==
    [id |-> id, lowerBinId |-> 100, upperBinId |-> 120,
     binDistributionKind |-> "array", binDistribution |-> binDistribution,
     unclaimedFeesType |-> "number", unclaimedFees |-> unclaimedFees,
     pnlPercentageType |-> "number", pnlPercentage |-> pnlPercentage,
     priceRangeKind |-> "object", priceRange |-> priceRange]

\* range 100..120 with active bin 50, $75 of unclaimed fees and -15 % PnL
AllRulesPosition ==
    Position(0, <<Bin(50, 300, 300)>>, 7500, -1500,
             [min |-> 0, max |-> 10, current |-> 5])

\* the positions of a snapshot.  The bin-domain engine reads the bin fields,
\* the fees and the PnL, the price-domain engine reads priceRange alone: the
\* bin-domain fields take every combination (each distribution, fees of
\* $50.00 and $50.01, PnL of -10.00 % and -10.01 %) at one price range, and
\* the price range takes each of its values at one combination of the others
Profiles ==
    { Position(0, d, f, p, [min |-> 0, max |-> 10, current |-> 5]) :
        d \in Distributions, f \in {5000, 5001}, p \in {-1000, -1001} }
    \cup { Position(0, <<>>, 5000, -1000, r) : r \in PriceRanges }
    \cup {AllRulesPosition}

\* an array of positions drawn from Profiles; the i-th position's id is i
PositionArray(profiles) ==
    [i \in 1..Len(profiles) |-> [profiles[i] EXCEPT !.id = i]]

\* the loop written as while (positions.length) { positions.shift() ... }: the
\* call empties the caller's array
GenerateApiConsumingInput ==
    /\ engine' = "api"
    /\ recommendations' = ApiService_generateRebalanceRecommendations(positions)
    /\ positions' = <<>>
    /\ UNCHANGED <<health, now, simulation, portfolio, lookup, app>>

\* one call of a service's generateRebalanceRecommendations on the snapshot
GenerateApi ==
    /\ engine' = "api"
    /\ recommendations' = ApiService_generateRebalanceRecommendations(positions)
    /\ UNCHANGED <<health, positions, now, simulation, portfolio, lookup, app>>

GenerateMockApi ==
    /\ engine' = "mockapi"
    /\ recommendations' = MockApiService_generateRebalanceRecommendations(positions)
    /\ UNCHANGED <<health, positions, now, simulation, portfolio, lookup, app>>

GenerateReal ==
    /\ engine' = "real"
    /\ recommendations' = RealService_generateRebalanceRecommendations(positions)
    /\ UNCHANGED <<health, positions, now, simulation, portfolio, lookup, app>>

Init ==
    /\ health = NoHealth
    /\ \E n \in 0..MaxPositions :
          \E profiles \in [1..n -> Profiles] : positions = PositionArray(profiles)
    /\ engine = "none"
    /\ recommendations = <<>>
    /\ now = 0
    /\ app = NoApp
    /\ lookup = NoLookup
    /\ simulation = NoSimulation
    /\ portfolio = NoPortfolio

Next == GenerateApi \/ GenerateMockApi \/ GenerateReal

\* the engines: generateRebalanceRecommendations calls on one snapshot
Spec == Init /\ [][Next]_vars

---------------------------------------------------------------------------
(* The price-domain engine's calls around its thresholds *)

\* current prices in the range 0..100: utilization 0.09, 0.1, 0.19, 0.2, 0.5,
\* 0.8, 0.81, 0.9, 0.91, and a price below and above the range
ThresholdPrices == {-5, 9, 10, 19, 20, 50, 80, 81, 90, 91, 105}

\* positions that differ in priceRange alone: the range 0..100 at each
\* threshold price, and the empty range 10..10 (utilization 0 / 0) at price 10
PriceProfiles ==
    { Position(0, <<>>, 5000, -1000, [min |-> 0, max |-> 100, current |-> c]) :
        c \in ThresholdPrices }
    \cup { Position(0, <<>>, 5000, -1000, [min |-> 10, max |-> 10, current |-> 10]) }

InitPrice ==
    /\ health = NoHealth
    /\ \E n \in 0..MaxPositions :
          \E profiles \in [1..n -> PriceProfiles] : positions = PositionArray(profiles)
    /\ engine = "none"
    /\ recommendations = <<>>
    /\ now = 0
    /\ app = NoApp
    /\ lookup = NoLookup
    /\ simulation = NoSimulation
    /\ portfolio = NoPortfolio

NextPrice == GenerateReal

\* the price-domain engine alone, on prices around its thresholds
SpecPrice == InitPrice /\ [][NextPrice]_vars

---------------------------------------------------------------------------
(* The active-bin lookup's calls *)

\* the liquidity of one side of a bin: none or some
Liquidities == {0, 5}

\* the array with bin ids 101, 102, ... and the given liquidities
DistributionOf(sides) ==
    [i \in 1..Len(sides) |-> [binId |-> 100 + i, liquidityX |-> sides[i][1], liquidityY |-> sides[i][2]]]

\* one call of findActiveBin on the distribution at hand; the two services
\* hold the same code
LookupApi ==
    /\ lookup' = [lookup EXCEPT !.service = "api",
                                !.result = findActiveBin(lookup.distribution)]
    /\ UNCHANGED <<health, positions, engine, recommendations, now, simulation, portfolio, app>>

LookupMockApi ==
    /\ lookup' = [lookup EXCEPT !.service = "mockapi",
                                !.result = findActiveBin(lookup.distribution)]
    /\ UNCHANGED <<health, positions, engine, recommendations, now, simulation, portfolio, app>>

\* the argument is any array of at most MaxDistribution bins
InitLookup ==
    /\ health = NoHealth
    /\ positions = <<>>
    /\ engine = "none"
    /\ recommendations = <<>>
    /\ now = 0
    /\ app = NoApp
    /\ simulation = NoSimulation
    /\ portfolio = NoPortfolio
    /\ \E n \in 0..MaxDistribution :
          \E sides \in [1..n -> Liquidities \X Liquidities] :
             lookup = [NoLookup EXCEPT !.distribution = DistributionOf(sides)]

NextLookup == LookupApi \/ LookupMockApi

\* the active-bin lookup alone: findActiveBin calls of the two services
SpecLookup == InitLookup /\ [][NextLookup]_vars

---------------------------------------------------------------------------
(* Strategy simulator: arithmetic *)

\* Real numbers are kept as exact quotients; the rounding of doubles is not
\* modelled.  `undefined` read as a number is NaN in every operation.
UndefinedNumber == [kind |-> "undefined", num |-> 0, den |-> 1]

Whole(n) == [kind |-> "fin", num |-> n, den |-> 1]

IsNaN(a) == a.kind \in {"nan", "undefined"}

RECURSIVE GCD(_, _)
GCD(a, b) == IF b = 0 THEN a ELSE GCD(b, a % b)

Abs(n) == IF n < 0 THEN -n ELSE n

\* the quotient n / d, d # 0, in lowest terms with a positive denominator
Quotient(n, d) ==
    LET g == GCD(Abs(n), Abs(d))
        sign == IF d < 0 THEN -1 ELSE 1
    IN  [kind |-> "fin", num |-> sign * (n \div g), den |-> sign * (d \div g)]

RatSign(a) ==
    CASE a.kind = "pinf" -> 1
      [] a.kind = "ninf" -> -1
      [] a.kind = "fin" -> IF a.num > 0 THEN 1 ELSE IF a.num < 0 THEN -1 ELSE 0
      [] OTHER -> 0

\* a * b
RatTimes(a, b) ==
    IF IsNaN(a) \/ IsNaN(b) THEN NaN
    ELSE IF a.kind = "fin" /\ b.kind = "fin"
    THEN Quotient(a.num * b.num, a.den * b.den)
    ELSE IF RatSign(a) * RatSign(b) = 0 THEN NaN
    ELSE IF RatSign(a) * RatSign(b) > 0 THEN PosInfinity ELSE NegInfinity

\* a - b
RatMinus(a, b) ==
    IF IsNaN(a) \/ IsNaN(b) THEN NaN
    ELSE IF a.kind = "fin" /\ b.kind = "fin"
    THEN Quotient(a.num * b.den - b.num * a.den, a.den * b.den)
    ELSE IF a.kind = "fin" THEN (IF b.kind = "pinf" THEN NegInfinity ELSE PosInfinity)
    ELSE IF a.kind = b.kind THEN NaN
    ELSE a

\* a + b
RatPlus(a, b) == RatMinus(a, RatMinus(Whole(0), b))

\* a < b for two numbers that are not NaN
RatLess(a, b) ==
    CASE a.kind = "ninf" -> b.kind # "ninf"
      [] a.kind = "pinf" -> FALSE
      [] b.kind = "ninf" -> FALSE
      [] b.kind = "pinf" -> TRUE
      [] OTHER -> a.num * b.den < b.num * a.den

\* Math.min(a, b) and Math.max(a, b): NaN when either argument is NaN
RatMin(a, b) == IF IsNaN(a) \/ IsNaN(b) THEN NaN ELSE IF RatLess(b, a) THEN b ELSE a
RatMax(a, b) == IF IsNaN(a) \/ IsNaN(b) THEN NaN ELSE IF RatLess(a, b) THEN b ELSE a

\* a / b
RatOver(a, b) ==
    IF IsNaN(a) \/ IsNaN(b) THEN NaN
    ELSE IF a.kind = "fin" /\ b.kind = "fin"
    THEN IF b.num = 0 THEN Divide(a.num, 0)
         ELSE Quotient(a.num * b.den, a.den * b.num)
    ELSE IF a.kind # "fin" /\ b.kind # "fin" THEN NaN
    ELSE IF b.kind # "fin" THEN Whole(0)
    ELSE IF RatSign(b) >= 0 THEN a
    ELSE IF a.kind = "pinf" THEN NegInfinity ELSE PosInfinity

---------------------------------------------------------------------------
(* Strategy simulator: the three simulateStrategy *)

\* names every object inherits from Object.prototype: strategyConfigs[name]
\* finds a member there when the table itself has no such key
ObjectPrototypeKeys ==
    {"constructor", "toString", "valueOf", "hasOwnProperty", "isPrototypeOf",
     "propertyIsEnumerable", "toLocaleString", "__proto__"}

\* a promise rejected with an error of the given name and message
Rejected(error) ==
    [outcome |-> "rejected", error |-> error, result |-> [strategy |-> "none"]]

Returned(result) == [outcome |-> "returned", error |-> "none", result |-> result]

\* timeHorizon || '30d'
OrDefaultHorizon(timeHorizon) ==
    IF timeHorizon \in {"undefined", ""} THEN "30d" ELSE timeHorizon

\* timeHorizon: string = '30d' (a default parameter: taken for undefined alone)
DefaultHorizon(timeHorizon) ==
    IF timeHorizon = "undefined" THEN "30d" ELSE timeHorizon

\* SarosSdkService.simulateStrategy: a zero-filled result for every strategy
SdkService_simulateStrategy(position, strategy, timeHorizon) ==
    Returned([strategy |-> strategy,
              expectedReturn |-> Whole(0),
              timeHorizon |-> OrDefaultHorizon(timeHorizon),
              confidence |-> Whole(0),
              details |-> [feesProjected |-> Whole(0),
                           ilProjected |-> Whole(0),
                           capitalEfficiency |-> Whole(0)]])

\* the keys of SarosApiService's strategyConfigs
ApiStrategies == {"narrow", "wide", "balanced"}

\* strategyConfigs[strategy].risk and .expectedReturn; undefined on a member
\* inherited from Object.prototype
ApiConfigRisk(strategy) ==
    CASE strategy = "narrow" -> Divide(8, 10)
      [] strategy = "wide" -> Divide(3, 10)
      [] strategy = "balanced" -> Divide(5, 10)
      [] OTHER -> UndefinedNumber

ApiConfigExpectedReturn(strategy) ==
    CASE strategy = "narrow" -> Divide(12, 100)
      [] strategy = "wide" -> Divide(6, 100)
      [] strategy = "balanced" -> Divide(9, 100)
      [] OTHER -> UndefinedNumber

\* SarosApiService.simulateStrategy: config.expectedReturn on an undefined
\* config throws a TypeError, which rejects the promise
ApiService_simulateStrategy(position, strategy, timeHorizon) ==
    IF strategy \notin ApiStrategies \cup ObjectPrototypeKeys
    THEN Rejected("TypeError: Cannot read properties of undefined")
    ELSE Returned([strategy |-> strategy,
                   expectedReturn |-> ApiConfigExpectedReturn(strategy),
                   risk |-> ApiConfigRisk(strategy),
                   timeHorizon |-> DefaultHorizon(timeHorizon),
                   confidence |-> Divide(75, 100),
                   riskScore |-> ApiConfigRisk(strategy),
                   details |->
                       [feesProjected |->
                            RatTimes(ApiConfigExpectedReturn(strategy), Divide(8, 10)),
                        ilProjected |->
                            IF strategy = "narrow" THEN Divide(5, 100) ELSE Divide(2, 100),
                        capitalEfficiency |->
                            IF strategy = "narrow" THEN Divide(95, 100) ELSE Divide(6, 10)]])

\* the mock-fallback service's simulateStrategy: the same code, line for line
MockApiService_simulateStrategy(position, strategy, timeHorizon) ==
    ApiService_simulateStrategy(position, strategy, timeHorizon)

\* the keys of RealSarosService's strategyConfigs
RealStrategies == {"conservative", "balanced", "aggressive"}

RealConfigRangeMultiplier(strategy) ==
    CASE strategy = "conservative" -> Divide(2, 10)
      [] strategy = "balanced" -> Divide(1, 10)
      [] strategy = "aggressive" -> Divide(5, 100)
      [] OTHER -> UndefinedNumber

RealConfigExpectedAPY(strategy) ==
    CASE strategy = "conservative" -> Whole(15)
      [] strategy = "balanced" -> Whole(25)
      [] strategy = "aggressive" -> Whole(40)
      [] OTHER -> UndefinedNumber

RealConfigRiskScore(strategy) ==
    CASE strategy = "conservative" -> Whole(2)
      [] strategy = "balanced" -> Whole(5)
      [] strategy = "aggressive" -> Whole(8)
      [] OTHER -> UndefinedNumber

\* const rangeSize = (max - min) / current; return Math.min(rangeSize * 2, 0.5)
estimateVolatility(position) ==
    LET rangeSize == Divide(position.priceRange.max - position.priceRange.min,
                            position.priceRange.current)
    IN  RatMin(RatTimes(rangeSize, Whole(2)), Divide(5, 10))

\* strategy.charAt(0).toUpperCase() + strategy.slice(1)
Capitalize(strategy) ==
    CASE strategy = "conservative" -> "Conservative"
      [] strategy = "balanced" -> "Balanced"
      [] strategy = "aggressive" -> "Aggressive"
      [] strategy = "narrow" -> "Narrow"
      [] strategy = "wide" -> "Wide"
      [] strategy = "constructor" -> "Constructor"
      [] strategy = "unknown" -> "Unknown"
      [] OTHER -> strategy

\* 0.75 + Math.random() * 0.2, Math.random() being random / RandomSteps
RandomConfidence(random) ==
    Divide(75 * RandomSteps + 20 * random, 100 * RandomSteps)

\* expectedReturn: Math.max(5, Math.min(adjustedAPY, 100)) / 100
expectedReturnOf(adjustedAPY) ==
    RatOver(RatMax(Whole(5), RatMin(adjustedAPY, Whole(100))), Whole(100))

\* RealSarosService.simulateStrategy: config.expectedAPY on an undefined
\* config throws a TypeError inside the try block; the catch block rethrows
\* new Error('Strategy simulation failed: ...')
RealService_simulateStrategy(position, strategy, timeHorizon, random) ==
    IF strategy \notin RealStrategies \cup ObjectPrototypeKeys
    THEN Rejected("Error: Strategy simulation failed")
    ELSE
    LET baseValue == Whole(position.totalLiquidity)
        currentVolatility == estimateVolatility(position)
        rangeMultiplier == RealConfigRangeMultiplier(strategy)
        expectedAPY == RealConfigExpectedAPY(strategy)
        adjustedAPY ==
            RatTimes(expectedAPY,
                     RatMinus(Whole(1), RatTimes(currentVolatility, rangeMultiplier)))
    IN  Returned([strategy |-> Capitalize(strategy),
                  expectedReturn |-> expectedReturnOf(adjustedAPY),
                  riskScore |-> RealConfigRiskScore(strategy),
                  timeHorizon |-> OrDefaultHorizon(timeHorizon),
                  confidence |-> RandomConfidence(random),
                  details |->
                      [feesProjected |->
                           RatTimes(RatOver(RatTimes(baseValue, adjustedAPY), Whole(100)),
                                    Divide(25, 100)),
                       ilProjected |->
                           RatTimes(RatTimes(currentVolatility, rangeMultiplier),
                                    baseValue),
                       capitalEfficiency |->
                           RatOver(RatOver(expectedAPY, Whole(100)),
                                   RealConfigRiskScore(strategy))]])

---------------------------------------------------------------------------
(* The simulator's calls *)

\* the draws of Math.random()
Randoms == 0..(RandomSteps - 1)

\* strategy names: the keys of the two tables, a name in neither, and a name
\* inherited from Object.prototype
StrategyNames ==
    ApiStrategies \cup RealStrategies \cup {"unknown", "constructor"}

\* undefined (argument left out), the empty string, and a given horizon
TimeHorizons == {"undefined", "", "7d"}

\* the fields of a position simulateStrategy reads: price ranges of width 10 %
\* and 200 % of the current price, and two with a current price of 0
\* (rangeSize Infinity and NaN)
SimulatedPositions ==
    { [priceRange |-> r, totalLiquidity |-> l] :
        r \in { [min |-> 95, max |-> 105, current |-> 100],
                [min |-> 0, max |-> 10, current |-> 5],
                [min |-> 0, max |-> 10, current |-> 0],
                [min |-> 0, max |-> 0, current |-> 0] },
        l \in {1000, 5000} }

\* one call of a service's simulateStrategy on the arguments at hand
SimulateWith(service, answer) ==
    /\ simulation' = [simulation EXCEPT !.service = service,
                                        !.outcome = answer.outcome,
                                        !.error = answer.error,
                                        !.result = answer.result]
    /\ UNCHANGED <<health, positions, engine, recommendations, now, portfolio, lookup, app>>

SimulateSdk ==
    SimulateWith("sdk", SdkService_simulateStrategy(
                            simulation.position, simulation.strategy,
                            simulation.timeHorizon))

SimulateApi ==
    SimulateWith("api", ApiService_simulateStrategy(
                            simulation.position, simulation.strategy,
                            simulation.timeHorizon))

SimulateMockApi ==
    SimulateWith("mockapi", MockApiService_simulateStrategy(
                                simulation.position, simulation.strategy,
                                simulation.timeHorizon))

SimulateReal ==
    \E random \in Randoms :
        SimulateWith("real", RealService_simulateStrategy(
                                 simulation.position, simulation.strategy,
                                 simulation.timeHorizon, random))

InitSimulate ==
    /\ health = NoHealth
    /\ positions = <<>>
    /\ engine = "none"
    /\ recommendations = <<>>
    /\ now = 0
    /\ app = NoApp
    /\ lookup = NoLookup
    /\ portfolio = NoPortfolio
    /\ \E position \in SimulatedPositions, strategy \in StrategyNames,
          timeHorizon \in TimeHorizons :
           simulation = [NoSimulation EXCEPT !.position = position,
                                             !.strategy = strategy,
                                             !.timeHorizon = timeHorizon]

NextSimulate == SimulateSdk \/ SimulateApi \/ SimulateMockApi \/ SimulateReal

\* the simulator alone: simulateStrategy calls of the services
SpecSimulate == InitSimulate /\ [][NextSimulate]_vars

---------------------------------------------------------------------------
(* Portfolio snapshots: getPortfolioData of the data services *)

\* Money is kept in integer cents and apr in integer tenths of a percent.
\* pnlPercentage is in hundredths of a percent, an integer in the mock and the
\* SDK-converted positions and a quotient in the REST-converted ones.  The
\* prices of the mock positions are kept in tenths (0.9 is 9).
SnapshotPosition(id, binRange, binDistribution, economics, priceRange, grade) ==
    [id |-> id, lowerBinId |-> binRange.lower, upperBinId |-> binRange.upper,
     binRange |-> binRange,
     binDistributionKind |-> "array", binDistribution |-> binDistribution,
     totalLiquidity |-> economics.totalLiquidity,
     currentValue |-> economics.currentValue,
     apr |-> economics.apr, feesEarned |-> economics.feesEarned,
     unclaimedFeesType |-> "number", unclaimedFees |-> economics.unclaimedFees,
     pnl |-> economics.pnl,
     pnlPercentageType |-> "number", pnlPercentage |-> economics.pnlPercentage,
     priceRangeKind |-> "object", priceRange |-> priceRange,
     health |-> grade]

\* for (let i = lowerBin; i <= upperBin; i++): liquidity = Math.max(1000 -
\* |i - activeBin| * 50, 100), all of it on side X below the active bin, on
\* side Y above it, and half of it on side Y alone at the active bin
generateMockBinDistribution(lowerBin, upperBin, activeBin) ==
    [k \in 1..(upperBin - lowerBin + 1) |->
        LET i == lowerBin + k - 1
            liquidity == MathMaxOf(1000 - Abs(i - activeBin) * 50, 100)
        IN  Bin(i,
                IF i < activeBin THEN liquidity ELSE 0,
                IF i > activeBin THEN liquidity
                ELSE IF i = activeBin THEN liquidity \div 2 ELSE 0)]

\* the two positions of getMockPortfolioData
mockPositions ==
    << SnapshotPosition(
           "mock-sol-usdc",
           [lower |-> 8388598, upper |-> 8388618, active |-> 8388608],
           generateMockBinDistribution(8388598, 8388618, 8388608),
           [totalLiquidity |-> 500000, currentValue |-> 525000, apr |-> 455,
            feesEarned |-> 12500, unclaimedFees |-> 2500,
            pnl |-> 25000, pnlPercentage |-> 500],
           [min |-> 950, max |-> 1050, current |-> 1000],
           "Excellent"),
       SnapshotPosition(
           "mock-saros-usdc",
           [lower |-> 8388588, upper |-> 8388628, active |-> 8388608],
           generateMockBinDistribution(8388588, 8388628, 8388608),
           [totalLiquidity |-> 200000, currentValue |-> 195000, apr |-> 623,
            feesEarned |-> 8000, unclaimedFees |-> 1500,
            pnl |-> -5000, pnlPercentage |-> -250],
           [min |-> 9, max |-> 11, current |-> 10],
           "Good") >>

\* getMockPortfolioData: the roll-ups are literals of the source
getMockPortfolioData ==
    [totalValue |-> 720000,
     totalFeesEarned |-> 20500,
     totalPnL |-> 20000,
     totalPnLPercentage |-> Quotient(286, 100),
     avgApy |-> Whole(539),
     positions |-> mockPositions,
     summary |-> [totalActivePositions |-> 2,
                  totalUnclaimedFees |-> 4000,
                  averageAPR |-> Whole(539)]]

\* positions.reduce((sum, pos) => sum + pos.<field>, 0)
RECURSIVE sumCurrentValue(_)
sumCurrentValue(list) ==
    IF list = <<>> THEN 0
    ELSE sumCurrentValue(SubSeq(list, 1, Len(list) - 1)) + list[Len(list)].currentValue

RECURSIVE sumPnl(_)
sumPnl(list) ==
    IF list = <<>> THEN 0
    ELSE sumPnl(SubSeq(list, 1, Len(list) - 1)) + list[Len(list)].pnl

RECURSIVE sumUnclaimedFees(_)
sumUnclaimedFees(list) ==
    IF list = <<>> THEN 0
    ELSE sumUnclaimedFees(SubSeq(list, 1, Len(list) - 1)) + list[Len(list)].unclaimedFees

RECURSIVE sumApr(_)
sumApr(list) ==
    IF list = <<>> THEN 0
    ELSE sumApr(SubSeq(list, 1, Len(list) - 1)) + list[Len(list)].apr

\* calculatePortfolioData: the roll-ups computed from the positions
calculatePortfolioData(list) ==
    LET totalValue == sumCurrentValue(list)
        totalPnL == sumPnl(list)
        totalUnclaimedFees == sumUnclaimedFees(list)
        averageAPR == IF Len(list) > 0 THEN Quotient(sumApr(list), Len(list))
                      ELSE Whole(0)
    IN  [totalValue |-> totalValue,
         totalFeesEarned |-> totalUnclaimedFees,
         totalPnL |-> totalPnL,
         totalPnLPercentage |->
             IF totalValue > 0
             THEN Times(Divide(totalPnL, totalValue - totalPnL), 100)
             ELSE Whole(0),
         avgApy |-> averageAPR,
         positions |-> list,
         summary |-> [totalActivePositions |-> Len(list),
                      totalUnclaimedFees |-> totalUnclaimedFees,
                      averageAPR |-> averageAPR]]

\* the Position convertSdkPositions builds of one SDK position: the id from
\* sdkPos.publicKey (0 stands for 'unknown'), health: 'Good', all else zero
convertSdkPosition(sdkPos) ==
    SnapshotPosition(
        IF sdkPos.kind = "keyed" THEN sdkPos.publicKey ELSE 0,
        [lower |-> 0, upper |-> 0, active |-> 0],
        <<>>,
        [totalLiquidity |-> 0, currentValue |-> 0, apr |-> 0, feesEarned |-> 0,
         unclaimedFees |-> 0, pnl |-> 0, pnlPercentage |-> 0],
        [min |-> 0, max |-> 0, current |-> 0],
        "Good")

\* convertSdkPositions: sdkPos.publicKey of a null element throws inside the
\* loop's try block, and the element is skipped
RECURSIVE convertSdkPositions(_)
convertSdkPositions(sdkPositions) ==
    IF sdkPositions = <<>> THEN <<>>
    ELSE (IF Head(sdkPositions).kind = "null" THEN <<>>
          ELSE <<convertSdkPosition(Head(sdkPositions))>>)
         \o convertSdkPositions(Tail(sdkPositions))

\* Math.min(...binDistribution.map(b => b.binId)) and Math.max(...)
minBinId(binDistribution) ==
    CHOOSE b \in {binDistribution[k].binId : k \in DOMAIN binDistribution} :
        \A k \in DOMAIN binDistribution : b <= binDistribution[k].binId

maxBinId(binDistribution) ==
    CHOOSE b \in {binDistribution[k].binId : k \in DOMAIN binDistribution} :
        \A k \in DOMAIN binDistribution : b >= binDistribution[k].binId

\* the Position convertPoolPositionsToPositions builds of one pool position
convertPoolPosition(poolPos) ==
    LET currentValue == poolPos.total_token_x + poolPos.total_token_y
        binDistribution == poolPos.bins
        lowerBinId == IF Len(binDistribution) > 0 THEN minBinId(binDistribution)
                      ELSE poolPos.active_bin_id - 10
        upperBinId == IF Len(binDistribution) > 0 THEN maxBinId(binDistribution)
                      ELSE poolPos.active_bin_id + 10
    IN  SnapshotPosition(
            poolPos.pair_id,
            [lower |-> lowerBinId, upper |-> upperBinId,
             active |-> poolPos.active_bin_id],
            binDistribution,
            [totalLiquidity |-> poolPos.total_liquidity,
             currentValue |-> currentValue,
             apr |-> poolPos.apr_24h,
             feesEarned |-> poolPos.fees_24h,
             unclaimedFees |-> poolPos.fees_24h,
             pnl |-> currentValue - poolPos.total_liquidity,
             pnlPercentage |->
                 Times(Divide(currentValue - poolPos.total_liquidity,
                              poolPos.total_liquidity), 10000)],
            [min |-> lowerBinId * poolPos.bin_step,
             max |-> upperBinId * poolPos.bin_step,
             current |-> poolPos.active_bin_id * poolPos.bin_step],
            ApiService_calculateHealth(poolPos.active_bin_id, lowerBinId, upperBinId))

\* convertPoolPositionsToPositions: getTokenSymbol throws on a pool position
\* without its mint addresses (mintAddress.slice of undefined) inside the
\* loop's try block, and the pool position is skipped
RECURSIVE convertPoolPositionsToPositions(_)
convertPoolPositionsToPositions(poolPositions) ==
    IF poolPositions = <<>> THEN <<>>
    ELSE (IF ~Head(poolPositions).hasMints THEN <<>>
          ELSE <<convertPoolPosition(Head(poolPositions))>>)
         \o convertPoolPositionsToPositions(Tail(poolPositions))

\* the promise of a getPortfolioData call: fulfilled with a PortfolioData
\* built from fetched positions or from the mock data, or rejected
Fulfilled(origin, data) ==
    [outcome |-> "returned", error |-> "none", origin |-> origin, data |-> data]

RejectedWith(error) ==
    [outcome |-> "rejected", error |-> error, origin |-> "none", data |-> NoData]

\* SarosSdkService.getPortfolioData: publicKey.toString() of null throws into
\* the outer catch, a throwing findPosition into the inner one, and an answer
\* that is no array skips the conversion: all three end in the mock data
SdkService_getPortfolioData(fetch) ==
    IF fetch.publicKey = "null" THEN Fulfilled("mock", getMockPortfolioData)
    ELSE IF fetch.findPosition.kind = "array"
    THEN Fulfilled("converted",
                   calculatePortfolioData(
                       convertSdkPositions(fetch.findPosition.positions)))
    ELSE Fulfilled("mock", getMockPortfolioData)

\* SarosApiService.getPortfolioData (REST service): every failure inside the
\* try block is rethrown as Error('Failed to fetch portfolio data: ...')
ApiService_getPortfolioData(fetch) ==
    IF fetch.publicKey = "null" \/ fetch.poolPositions.kind # "array"
    THEN RejectedWith("Error: Failed to fetch portfolio data")
    ELSE Fulfilled("converted",
                   calculatePortfolioData(
                       convertPoolPositionsToPositions(fetch.poolPositions.positions)))

\* SarosApiService.getPortfolioData (mock-fallback service): the mock data at
\* once when USE_MOCK_DATA, at the end of the try block, and in the catch block
MockApiService_getPortfolioData(fetch) ==
    IF fetch.useMockData THEN Fulfilled("mock", getMockPortfolioData)
    ELSE IF fetch.publicKey = "null" THEN Fulfilled("mock", getMockPortfolioData)
    ELSE Fulfilled("mock", getMockPortfolioData)

---------------------------------------------------------------------------
(* The data services' calls *)

\* the array findPosition answers with: keyed, keyless and null elements; the
\* i-th element's public key is i
SdkArray(kinds) == [i \in 1..Len(kinds) |-> [kind |-> kinds[i], publicKey |-> i]]

\* three bins of a pool position: the range 100..110
PoolBins == <<Bin(100, 500, 0), Bin(105, 250, 250), Bin(110, 0, 500)>>

\* the pool positions of the REST answer: $600 + $500 of tokens on $1000 or $0
\* of liquidity, with or without bin rows and mint addresses
PoolProfiles ==
    { [pair_id |-> 0, total_token_x |-> 60000, total_token_y |-> 50000,
       total_liquidity |-> l, fees_24h |-> 2500, apr_24h |-> a,
       active_bin_id |-> b, bin_step |-> 10, bins |-> d, hasMints |-> m] :
        l \in {0, 100000}, a \in {100, 205}, b \in {100, 105},
        d \in {<<>>, PoolBins}, m \in BOOLEAN }

\* the i-th pool position's pair_id is i
PoolArray(profiles) ==
    [i \in 1..Len(profiles) |-> [profiles[i] EXCEPT !.pair_id = i]]

\* one call of a service's getPortfolioData on the answers at hand
GetPortfolioWith(service, answer) ==
    /\ portfolio' = [portfolio EXCEPT !.service = service,
                                      !.outcome = answer.outcome,
                                      !.error = answer.error,
                                      !.origin = answer.origin,
                                      !.data = answer.data]
    /\ UNCHANGED <<health, positions, engine, recommendations, now, simulation, lookup, app>>

GetPortfolioSdk == GetPortfolioWith("sdk", SdkService_getPortfolioData(portfolio.fetch))

GetPortfolioApi == GetPortfolioWith("api", ApiService_getPortfolioData(portfolio.fetch))

GetPortfolioMockApi ==
    GetPortfolioWith("mockapi", MockApiService_getPortfolioData(portfolio.fetch))

\* the data sources' answers: one of them varies, the others fail
InitPortfolio ==
    /\ health = NoHealth
    /\ positions = <<>>
    /\ engine = "none"
    /\ recommendations = <<>>
    /\ now = 0
    /\ app = NoApp
    /\ lookup = NoLookup
    /\ simulation = NoSimulation
    /\ \/ \E fetch \in
               { [DefaultFetch EXCEPT !.publicKey = "null"],
                 [DefaultFetch EXCEPT !.useMockData = TRUE],
                 DefaultFetch,
                 [DefaultFetch EXCEPT !.findPosition.kind = "notArray"],
                 [DefaultFetch EXCEPT !.poolPositions.kind = "notArray"] } :
              portfolio = [NoPortfolio EXCEPT !.fetch = fetch]
       \/ \E n \in 0..MaxFetched :
              \E kinds \in [1..n -> {"keyed", "keyless", "null"}] :
                 portfolio = [NoPortfolio EXCEPT
                                 !.fetch.findPosition =
                                     [kind |-> "array", positions |-> SdkArray(kinds)]]
       \/ \E m \in 0..MaxFetched :
              \E profiles \in [1..m -> PoolProfiles] :
                 portfolio = [NoPortfolio EXCEPT
                                 !.fetch.poolPositions =
                                     [kind |-> "array", positions |-> PoolArray(profiles)]]

NextPortfolio == GetPortfolioSdk \/ GetPortfolioApi \/ GetPortfolioMockApi

\* the data services alone: getPortfolioData calls on what the sources answer
SpecPortfolio == InitPortfolio /\ [][NextPortfolio]_vars

---------------------------------------------------------------------------
(* The engines' calls on snapshots that hold malformed positions *)

\* a position inside its range (active bin 100), fees of $25, PnL 0 %, price
\* in the middle of its range: no rule of either engine holds
QuietPosition ==
    Position(0, <<Bin(99, 500, 0), Bin(100, 250, 250), Bin(101, 0, 500)>>,
             2500, 0, [min |-> 0, max |-> 10, current |-> 5])

\* well-formed positions and positions whose evaluation throws.  The malformed
\* ones are AllRulesPosition with one field of another type: binDistribution
\* undefined or holding a null element, unclaimedFees or pnlPercentage a
\* numeric string ("75.00", "-15.00"), priceRange undefined; a numeric string
\* below the fee threshold ("25.00") throws nothing
ErrorProfiles ==
    { AllRulesPosition,
      QuietPosition,
      Position(0, <<>>, 5000, -1000, [min |-> 0, max |-> 10, current |-> 0]),
      Position(0, <<>>, 5000, -1000, [min |-> 0, max |-> 10, current |-> 1]),
      [AllRulesPosition EXCEPT !.binDistributionKind = "undefined",
                               !.binDistribution = <<>>],
      [AllRulesPosition EXCEPT !.binDistributionKind = "arrayWithNull"],
      [AllRulesPosition EXCEPT !.unclaimedFeesType = "string"],
      [AllRulesPosition EXCEPT !.pnlPercentageType = "string"],
      [AllRulesPosition EXCEPT !.priceRangeKind = "undefined"],
      [QuietPosition EXCEPT !.unclaimedFeesType = "string"] }

\* the snapshot is an array of such positions, or the positions of the
\* built-in mock portfolio
InitErrors ==
    /\ health = NoHealth
    /\ \/ \E n \in 0..MaxPositions :
             \E profiles \in [1..n -> ErrorProfiles] :
                positions = PositionArray(profiles)
       \/ positions = getMockPortfolioData.positions
    /\ engine = "none"
    /\ recommendations = <<>>
    /\ now = 0
    /\ app = NoApp
    /\ lookup = NoLookup
    /\ simulation = NoSimulation
    /\ portfolio = NoPortfolio

\* the engines on snapshots with malformed positions and on the mock
\* portfolio, at one clock reading
SpecErrors == InitErrors /\ [][Next]_vars

\* Date.now() advances between two calls
Tick ==
    /\ now < MaxClock
    /\ now' = now + 1
    /\ UNCHANGED <<health, positions, engine, recommendations, simulation, portfolio, lookup, app>>

NextClock == Next \/ Tick

\* the engines called at different clock readings
SpecClock == InitErrors /\ [][NextClock]_vars

\* active bins handed to calculateHealth with the range 100..120 of the
\* positions: below the range, in its middle, above it
FrameActiveBins == {0, 110, 121}

\* a snapshot as in InitErrors, and the bins of one calculateHealth call
InitFrame ==
    /\ \E activeBin \in FrameActiveBins :
           health = [NoHealth EXCEPT !.activeBin = activeBin,
                                     !.lowerBin = 100, !.upperBin = 120]
    /\ \/ \E n \in 0..MaxPositions :
             \E profiles \in [1..n -> ErrorProfiles] :
                positions = PositionArray(profiles)
       \/ positions = getMockPortfolioData.positions
    /\ engine = "none"
    /\ recommendations = <<>>
    /\ now = 0
    /\ app = NoApp
    /\ lookup = NoLookup
    /\ simulation = NoSimulation
    /\ portfolio = NoPortfolio

NextFrame == Next \/ NextHealth

\* the engines and the classifier called in any order on one snapshot
SpecFrame == InitFrame /\ [][NextFrame]_vars

---------------------------------------------------------------------------
(* WalletService.connect *)

\* the promise of a connect call
ConnectResolved(state) == [settled |-> "resolved", state |-> state]

\* error.message || 'Failed to connect wallet': the default stands in for a
\* message that is missing or empty
MessageOrDefault(message) ==
    IF message \in {"undefined", ""} THEN "Failed to connect wallet" ELSE message

\* the catch block without its default: error: error.message
WalletService_connectWithoutDefault(present, answer) ==
    IF ~present
    THEN ConnectResolved([DisconnectedState EXCEPT
             !.error = "Phantom wallet not found. Please install Phantom wallet extension."])
    ELSE IF answer.kind = "resolves"
    THEN ConnectResolved([connected |-> TRUE, publicKey |-> answer.publicKey,
                          connecting |-> FALSE, error |-> "null"])
    ELSE ConnectResolved([DisconnectedState EXCEPT !.error = answer.message])

\* WalletService.connect: without a wallet the Error thrown in the try block
\* is caught; the wallet's answer is a response with a public key or a
\* rejection with an error object
WalletService_connect(present, answer) ==
    IF ~present
    THEN ConnectResolved([DisconnectedState EXCEPT
             !.error = "Phantom wallet not found. Please install Phantom wallet extension."])
    ELSE IF answer.kind = "resolves"
    THEN ConnectResolved([connected |-> TRUE, publicKey |-> answer.publicKey,
                          connecting |-> FALSE, error |-> "null"])
    ELSE ConnectResolved([DisconnectedState EXCEPT
             !.error = MessageOrDefault(answer.message)])

\* WalletService.getCurrentWalletState
getCurrentWalletState(wallet) ==
    IF ~wallet.present
    THEN [DisconnectedState EXCEPT !.error = "Phantom wallet not found"]
    ELSE [connected |-> wallet.isConnected, publicKey |-> wallet.publicKey,
          connecting |-> FALSE, error |-> "null"]

\* WalletService.getWallet: the adapter built in initializeWallet, or null
getWallet(wallet) == IF wallet.present THEN "adapter" ELSE "null"

---------------------------------------------------------------------------
(* The App component: wallet listeners, button handlers, loadPortfolioData *)

\* the accounts of the wallet
Keys == {"k1", "k2"}

\* the error objects a wallet rejects connect() with: with a message, without
RejectionMessages == {"User rejected the request.", "undefined"}

\* the sarosService the listeners of the mount effect see: the effect runs
\* once (dependency list []), so its closures keep the first render's value
sarosServiceAtMount == "null"

\* loadPortfolioData up to its await: setLoading(true); setError(null);
\* service.getPortfolioData(publicKey) is called
loadPortfolioData(a, publicKey) ==
    [a EXCEPT !.loading = TRUE, !.error = "null",
              !.loads = Append(a.loads, publicKey)]

\* the listener of the wallet service's 'connect' event
Listener_handleConnect(a, publicKey) ==
    LET connected ==
            [a EXCEPT !.walletState =
                [connected |-> TRUE, publicKey |-> publicKey,
                 connecting |-> FALSE, error |-> "null"]]
    IN  IF getWallet(a.wallet) # "null"
        THEN loadPortfolioData([connected EXCEPT !.sarosService = "service"], publicKey)
        ELSE connected

\* the listener of the 'disconnect' event
Listener_handleDisconnect(a) ==
    [a EXCEPT !.walletState = DisconnectedState,
              !.portfolioData = "null",
              !.sarosService = "null"]

\* the listener of the 'accountChanged' event
Listener_handleAccountChanged(a, publicKey) ==
    LET changed == [a EXCEPT !.walletState.publicKey = publicKey]
    IN  IF sarosServiceAtMount # "null"
        THEN loadPortfolioData(changed, publicKey)
        ELSE changed

\* the rest of the model stands still while the App runs
ServicesUnchanged ==
    UNCHANGED <<health, positions, engine, recommendations, now, simulation, portfolio, lookup>>

\* the Connect button (shown while disconnected, disabled while connecting or
\* loading): handleConnect up to await walletService.connect()
ClickConnect ==
    /\ ~app.walletState.connected
    /\ ~app.walletState.connecting /\ ~app.loading
    /\ app.connectCall.at = "idle"
    /\ app' = [app EXCEPT
                  !.walletState.connecting = TRUE,
                  !.walletState.error = "null",
                  !.connectCall.at = IF app.wallet.present THEN "awaiting" ELSE "settled",
                  !.connectCall.answer = NoAnswer]
    /\ ServicesUnchanged

\* the user approves in Phantom: the wallet is connected, its promise
\* resolves and its 'connect' event is due
WalletApproves ==
    /\ app.connectCall.at = "awaiting"
    /\ \E publicKey \in Keys :
          app' = [app EXCEPT
                     !.wallet.isConnected = TRUE,
                     !.wallet.publicKey = publicKey,
                     !.connectCall = [at |-> "settled",
                                      answer |-> [kind |-> "resolves",
                                                  publicKey |-> publicKey,
                                                  message |-> "undefined"]],
                     !.connectEvent = publicKey]
    /\ ServicesUnchanged

\* the user declines, or Phantom fails: the wallet's promise rejects
WalletRejects ==
    /\ app.connectCall.at = "awaiting"
    /\ \E message \in RejectionMessages :
          app' = [app EXCEPT
                     !.connectCall = [at |-> "settled",
                                      answer |-> [kind |-> "rejects",
                                                  publicKey |-> "null",
                                                  message |-> message]]]
    /\ ServicesUnchanged

\* the wallet's 'connect' event reaches the App's listener
EmitConnect ==
    /\ app.connectEvent # "null"
    /\ Len(app.loads) < MaxLoads
    /\ app' = [Listener_handleConnect(app, app.connectEvent) EXCEPT
                  !.connectEvent = "null"]
    /\ ServicesUnchanged

\* handleConnect after await walletService.connect(): setWalletState(result),
\* and on success a new service and a loadPortfolioData call
ConnectReturns ==
    /\ app.connectCall.at = "settled"
    /\ app.connectCall.answer.kind = "resolves" => Len(app.loads) < MaxLoads
    /\ LET result == WalletService_connect(app.wallet.present, app.connectCall.answer)
           returned == [app EXCEPT !.walletState = result.state,
                                   !.connectResult =
                                       [settled |-> result.settled,
                                        state |-> result.state,
                                        answer |-> app.connectCall.answer],
                                   !.connectCall = [at |-> "idle", answer |-> NoAnswer]]
       IN  app' = IF /\ result.state.connected
                     /\ result.state.publicKey # "null"
                     /\ getWallet(app.wallet) # "null"
                  THEN loadPortfolioData([returned EXCEPT !.sarosService = "service"],
                                         result.state.publicKey)
                  ELSE returned
    /\ ServicesUnchanged

\* a loadPortfolioData call resumes with the data: setPortfolioData(data),
\* then setLoading(false) in the finally block
LoadResolves ==
    /\ \E i \in 1..Len(app.loads) :
          app' = [app EXCEPT !.portfolioData = app.loads[i],
                             !.loading = FALSE,
                             !.loads = SubSeq(app.loads, 1, i - 1)
                                           \o SubSeq(app.loads, i + 1, Len(app.loads))]
    /\ ServicesUnchanged

\* a loadPortfolioData call resumes in its catch block: setError(message),
\* then setLoading(false)
LoadRejects ==
    /\ \E i \in 1..Len(app.loads) :
          app' = [app EXCEPT !.error = "Failed to fetch portfolio data",
                             !.loading = FALSE,
                             !.loads = SubSeq(app.loads, 1, i - 1)
                                           \o SubSeq(app.loads, i + 1, Len(app.loads))]
    /\ ServicesUnchanged

\* the wallet disconnects on its own (from the extension, or accountChanged
\* with no key): the 'disconnect' event reaches the App's listener, behind
\* the 'connect' event if that one is still due
WalletDisconnectEvent ==
    /\ app.wallet.isConnected
    /\ app.connectEvent = "null"
    /\ app' = [Listener_handleDisconnect(app) EXCEPT
                  !.wallet.isConnected = FALSE,
                  !.wallet.publicKey = "null"]
    /\ ServicesUnchanged

\* the user switches the account in Phantom: the 'accountChanged' event
\* reaches the App's listener
AccountChanged ==
    /\ app.wallet.isConnected
    /\ app.connectEvent = "null"
    /\ \E publicKey \in Keys \ {app.wallet.publicKey} :
          app' = [Listener_handleAccountChanged(app, publicKey) EXCEPT
                     !.wallet.publicKey = publicKey]
    /\ ServicesUnchanged

\* a Refresh or Retry button (shown while connected): handleRefresh
ClickRefresh ==
    /\ app.walletState.connected
    /\ app.walletState.publicKey # "null" /\ app.sarosService # "null"
    /\ Len(app.loads) < MaxLoads
    /\ app' = loadPortfolioData(app, app.walletState.publicKey)
    /\ ServicesUnchanged

\* the Disconnect button (shown while connected, disabled while loading):
\* handleDisconnect up to await walletService.disconnect()
ClickDisconnect ==
    /\ app.walletState.connected /\ ~app.loading
    /\ app.disconnectCall = "idle"
    /\ app' = [app EXCEPT
                  !.loading = TRUE,
                  !.disconnectCall = IF app.wallet.present THEN "awaiting" ELSE "settled"]
    /\ ServicesUnchanged

\* Phantom disconnects on request: its 'disconnect' event reaches the App's
\* listener and its promise resolves
WalletDisconnects ==
    /\ app.disconnectCall = "awaiting"
    /\ app.connectEvent = "null"
    /\ app' = [Listener_handleDisconnect(app) EXCEPT
                  !.wallet.isConnected = FALSE,
                  !.wallet.publicKey = "null",
                  !.disconnectCall = "settled"]
    /\ ServicesUnchanged

\* Phantom's disconnect() rejects: WalletService.disconnect logs and returns
WalletDisconnectFails ==
    /\ app.disconnectCall = "awaiting"
    /\ app' = [app EXCEPT !.disconnectCall = "settled"]
    /\ ServicesUnchanged

\* handleDisconnect after await walletService.disconnect(): the three
\* setters, then setLoading(false) in the finally block
DisconnectReturns ==
    /\ app.disconnectCall = "settled"
    /\ app' = [app EXCEPT !.walletState = DisconnectedState,
                          !.portfolioData = "null",
                          !.sarosService = "null",
                          !.loading = FALSE,
                          !.disconnectCall = "idle"]
    /\ ServicesUnchanged

\* the App is mounted in a browser with or without Phantom, not connected
\* yet: the mount effect sets walletState to getCurrentWalletState()
InitApp ==
    /\ health = NoHealth
    /\ positions = <<>>
    /\ engine = "none"
    /\ recommendations = <<>>
    /\ now = 0
    /\ lookup = NoLookup
    /\ simulation = NoSimulation
    /\ portfolio = NoPortfolio
    /\ \E present \in BOOLEAN :
          LET wallet == [present |-> present, isConnected |-> FALSE, publicKey |-> "null"]
          IN  app = [NoApp EXCEPT !.wallet = wallet,
                                  !.walletState = getCurrentWalletState(wallet)]

NextApp ==
    \/ ClickConnect \/ WalletApproves \/ WalletRejects \/ EmitConnect \/ ConnectReturns
    \/ LoadResolves \/ LoadRejects
    \/ WalletDisconnectEvent \/ AccountChanged \/ ClickRefresh
    \/ ClickDisconnect \/ WalletDisconnects \/ WalletDisconnectFails \/ DisconnectReturns

\* the App: the user's clicks, Phantom's answers and events, and the
\* loadPortfolioData calls resuming, in any order
SpecApp == InitApp /\ [][NextApp]_vars

---------------------------------------------------------------------------
(* Properties of the classifier (checked under SpecHealth) *)

HealthCalled == health.service # "none"

\* the grade a service's calculateHealth returns
HealthOf(service, activeBin, lowerBin, upperBin) ==
    CASE service = "sdk" -> SdkService_calculateHealth(activeBin, lowerBin, upperBin)
      [] service = "api" -> ApiService_calculateHealth(activeBin, lowerBin, upperBin)
      [] OTHER -> MockApiService_calculateHealth(activeBin, lowerBin, upperBin)

\* Poor < Fair < Good < Excellent
GradeRank(grade) ==
    CASE grade = "Poor" -> 0
      [] grade = "Fair" -> 1
      [] grade = "Good" -> 2
      [] grade = "Excellent" -> 3

\* min(active - lower, upper - active), stated apart from the services' code
NearestEdge(activeBin, lowerBin, upperBin) ==
    IF activeBin - lowerBin <= upperBin - activeBin
    THEN activeBin - lowerBin ELSE upperBin - activeBin

\* C1: for lower <= upper, an active bin below lower or above upper is graded
\* Poor by every service's calculateHealth, however far outside it lies.
C1_OutOfRangeIsPoor ==
    ( /\ HealthCalled
      /\ health.lowerBin <= health.upperBin
      /\ \/ health.activeBin < health.lowerBin
         \/ health.activeBin > health.upperBin )
    => health.grade = "Poor"

\* an unguarded service graded an active bin ten bins above a proper range
C1_Witness ==
    /\ health.service = "api"
    /\ health.lowerBin < health.upperBin
    /\ health.activeBin >= health.upperBin + 10
    /\ health.grade = "Poor"

\* C2: a zero-width range [b, b] is graded Poor for every active bin, by the
\* guarded service and by the services that divide by the zero range.
C2_DegenerateRangeIsPoor ==
    (HealthCalled /\ health.lowerBin = health.upperBin) => health.grade = "Poor"

\* an unguarded service graded 0 / 0: active bin = lower = upper
C2_Witness ==
    /\ health.service = "mockapi"
    /\ health.lowerBin = health.upperBin
    /\ health.activeBin = health.lowerBin
    /\ health.grade = "Poor"

\* C3: for lower < upper the grade is Excellent iff 100 * minDistance >
\* 30 * range, else Good iff > 20 * range, else Fair iff > 10 * range, else
\* Poor: a ratio of exactly 30, 20 or 10 gets the lower grade.
C3_StrictThresholds ==
    (HealthCalled /\ health.lowerBin < health.upperBin) =>
        LET range == health.upperBin - health.lowerBin
            nearest == NearestEdge(health.activeBin, health.lowerBin, health.upperBin)
        IN  /\ (health.grade = "Excellent") <=> (100 * nearest > 30 * range)
            /\ (health.grade = "Good") <=>
                   (100 * nearest <= 30 * range /\ 100 * nearest > 20 * range)
            /\ (health.grade = "Fair") <=>
                   (100 * nearest <= 20 * range /\ 100 * nearest > 10 * range)
            /\ (health.grade = "Poor") <=> (100 * nearest <= 10 * range)

\* a ratio of exactly 30 was graded Good
C3_Witness ==
    /\ HealthCalled
    /\ health.lowerBin < health.upperBin
    /\ 100 * NearestEdge(health.activeBin, health.lowerBin, health.upperBin)
           = 30 * (health.upperBin - health.lowerBin)
    /\ health.grade = "Good"

\* C4: within a fixed range lower < upper, an active bin at least as far from
\* its nearest edge as another one gets at least the other one's grade.
C4_MonotoneInMinDistance ==
    ( /\ HealthCalled
      /\ health.lowerBin < health.upperBin
      /\ health.lowerBin <= health.activeBin
      /\ health.activeBin <= health.upperBin )
    => \A other \in health.lowerBin..health.upperBin :
          NearestEdge(health.activeBin, health.lowerBin, health.upperBin)
             <= NearestEdge(other, health.lowerBin, health.upperBin)
          => GradeRank(health.grade)
                <= GradeRank(HealthOf(health.service, other,
                                      health.lowerBin, health.upperBin))

\* a bin graded Fair while a bin nearer the centre of the same range is Excellent
C4_Witness ==
    /\ HealthCalled
    /\ health.lowerBin <= health.activeBin
    /\ health.activeBin <= health.upperBin
    /\ health.grade = "Fair"
    /\ \E other \in health.lowerBin..health.upperBin :
          /\ NearestEdge(health.activeBin, health.lowerBin, health.upperBin)
                < NearestEdge(other, health.lowerBin, health.upperBin)
          /\ HealthOf(health.service, other, health.lowerBin, health.upperBin)
                = "Excellent"

\* the four grades calculateHealth can return
Grades == {"Excellent", "Good", "Fair", "Poor"}

\* C16: a calculateHealth call with upperBin < lowerBin fails with InvalidRange
\* and returns none of the four grades.
C16_InvertedRangeFails ==
    (HealthCalled /\ health.upperBin < health.lowerBin) => health.grade \notin Grades

---------------------------------------------------------------------------
(* Properties of the engines (checked under Spec) *)

BinEngineCalled == engine \in {"api", "mockapi"}

\* high > medium > low
PriorityRank(priority) ==
    CASE priority = "high" -> 3
      [] priority = "medium" -> 2
      [] priority = "low" -> 1

\* the index in the input array of the position with the given id
InputIndex(positionId) ==
    CHOOSE i \in DOMAIN positions : positions[i].id = positionId

\* rule order: out-of-range, fee, loss
RuleOrder(type) ==
    CASE type = "rebalance" -> 1
      [] type = "expand" -> 2
      [] type = "exit" -> 3

\* the returned recommendations of one position, and those of one type
RecommendationsFor(positionId) ==
    { k \in DOMAIN recommendations : recommendations[k].positionId = positionId }

RecommendationsOfType(positionId, type) ==
    { k \in RecommendationsFor(positionId) : recommendations[k].type = type }

\* the three rule conditions, stated on the position
OutOfRangeHolds(position) ==
    LET a == findActiveBin(position.binDistribution)
    IN  a < position.lowerBinId \/ a > position.upperBinId

FeeHolds(position) == position.unclaimedFees > 5000

LossHolds(position) == position.pnlPercentage < -1000

ConditionsHolding(position) ==
    (IF OutOfRangeHolds(position) THEN 1 ELSE 0)
    + (IF FeeHolds(position) THEN 1 ELSE 0)
    + (IF LossHolds(position) THEN 1 ELSE 0)

\* C5: the list returned by generateRebalanceRecommendations is sorted by
\* priority, in the bin-domain engine as in the price-domain engine: no
\* recommendation precedes one of a higher priority.
C5_SortedByPriority ==
    engine # "none" =>
        \A i, j \in DOMAIN recommendations :
            i < j => PriorityRank(recommendations[i].priority)
                        >= PriorityRank(recommendations[j].priority)

\* C6: two returned recommendations of the same priority appear in the order
\* of their positions in the input array, and those of one position in rule
\* order (out-of-range, fee, loss).
C6_StableWithinPriority ==
    engine # "none" =>
        \A i, j \in DOMAIN recommendations :
            ( /\ i < j
              /\ recommendations[i].priority = recommendations[j].priority )
            => LET first == recommendations[i]
                   second == recommendations[j]
               IN  \/ InputIndex(first.positionId) < InputIndex(second.positionId)
                   \/ /\ first.positionId = second.positionId
                      /\ RuleOrder(first.type) < RuleOrder(second.type)

\* the price-domain engine sorted a medium recommendation of the first
\* position behind the high ones of the second and the third, in input order
C6_Witness ==
    /\ engine = "real"
    /\ Len(positions) = 3
    /\ Len(recommendations) = 3
    /\ recommendations[1].priority = "high" /\ recommendations[1].positionId = 2
    /\ recommendations[2].priority = "high" /\ recommendations[2].positionId = 3
    /\ recommendations[3].priority = "medium" /\ recommendations[3].positionId = 1

\* C7: in the bin-domain engine a position gets as many recommendations as
\* rule conditions hold for it; when all three hold they are one
\* rebalance/high, one expand/medium and one exit/high.
C7_RulesIndependent ==
    BinEngineCalled =>
        \A i \in DOMAIN positions :
            LET position == positions[i]
                mine == RecommendationsFor(position.id)
            IN  /\ Cardinality(mine) = ConditionsHolding(position)
                /\ ConditionsHolding(position) = 3 =>
                      /\ \E k \in mine : /\ recommendations[k].type = "rebalance"
                                         /\ recommendations[k].priority = "high"
                      /\ \E k \in mine : /\ recommendations[k].type = "expand"
                                         /\ recommendations[k].priority = "medium"
                      /\ \E k \in mine : /\ recommendations[k].type = "exit"
                                         /\ recommendations[k].priority = "high"

\* range 100..120, active bin 50, fees $75, PnL -15 %: three recommendations
C7_Witness ==
    /\ engine = "api"
    /\ \E i \in DOMAIN positions :
          /\ positions[i].lowerBinId = 100 /\ positions[i].upperBinId = 120
          /\ findActiveBin(positions[i].binDistribution) = 50
          /\ positions[i].unclaimedFees = 7500
          /\ positions[i].pnlPercentage = -1500
          /\ Cardinality(RecommendationsFor(positions[i].id)) = 3

\* C8: a position gets a rebalance recommendation exactly when its true
\* active bin a is below lowerBinId or above upperBinId; there is then one,
\* of priority high, suggesting the range [a - 10, a + 10].
C8_OutOfRangeRule ==
    BinEngineCalled =>
        \A i \in DOMAIN positions :
            LET position == positions[i]
                a == findActiveBin(position.binDistribution)
                mine == RecommendationsOfType(position.id, "rebalance")
            IN  IF a < position.lowerBinId \/ a > position.upperBinId
                THEN /\ Cardinality(mine) = 1
                     /\ \A k \in mine :
                           /\ recommendations[k].priority = "high"
                           /\ recommendations[k].suggestedRange
                                = [lowerBinId |-> a - 10, upperBinId |-> a + 10]
                ELSE mine = {}

\* one position just above its range (active bin 121) was told 111..131 while
\* another with the active bin on its lower edge got no rebalance
C8_Witness ==
    /\ engine = "api"
    /\ \E i, j \in DOMAIN positions :
          /\ findActiveBin(positions[i].binDistribution) = positions[i].upperBinId + 1
          /\ \E k \in RecommendationsOfType(positions[i].id, "rebalance") :
                recommendations[k].suggestedRange
                   = [lowerBinId |-> 111, upperBinId |-> 131]
          /\ findActiveBin(positions[j].binDistribution) = positions[j].lowerBinId
          /\ RecommendationsOfType(positions[j].id, "rebalance") = {}

\* C9: a position gets an expand/medium recommendation iff its unclaimedFees
\* exceed 50: none at exactly 50.00, exactly one at 50.01.
C9_FeeRuleStrict ==
    BinEngineCalled =>
        \A i \in DOMAIN positions :
            LET mine == RecommendationsOfType(positions[i].id, "expand")
            IN  /\ Cardinality(mine) = IF positions[i].unclaimedFees > 5000 THEN 1 ELSE 0
                /\ \A k \in mine : recommendations[k].priority = "medium"

\* fees of $50.01 got one expand recommendation, fees of $50.00 none
C9_Witness ==
    /\ engine = "api"
    /\ \E i, j \in DOMAIN positions :
          /\ positions[i].unclaimedFees = 5001
          /\ Cardinality(RecommendationsOfType(positions[i].id, "expand")) = 1
          /\ positions[j].unclaimedFees = 5000
          /\ RecommendationsOfType(positions[j].id, "expand") = {}

\* C10: a position gets an exit/high recommendation iff its pnlPercentage is
\* below -10: none at exactly -10.00, exactly one at -10.01.
C10_LossRuleStrict ==
    BinEngineCalled =>
        \A i \in DOMAIN positions :
            LET mine == RecommendationsOfType(positions[i].id, "exit")
            IN  /\ Cardinality(mine) = IF positions[i].pnlPercentage < -1000 THEN 1 ELSE 0
                /\ \A k \in mine : recommendations[k].priority = "high"

\* a PnL of -10.01 % got one exit recommendation, a PnL of -10.00 % none
C10_Witness ==
    /\ engine = "mockapi"
    /\ \E i, j \in DOMAIN positions :
          /\ positions[i].pnlPercentage = -1001
          /\ Cardinality(RecommendationsOfType(positions[i].id, "exit")) = 1
          /\ positions[j].pnlPercentage = -1000
          /\ RecommendationsOfType(positions[j].id, "exit") = {}

---------------------------------------------------------------------------
(* Properties of repeated and failing calls (checked under SpecClock and
   SpecErrors) *)

\* what a service's generateRebalanceRecommendations returns on an input, at
\* the present clock reading
EngineOf(service, input) ==
    CASE service = "api" -> ApiService_generateRebalanceRecommendations(input)
      [] service = "mockapi" -> MockApiService_generateRebalanceRecommendations(input)
      [] OTHER -> RealService_generateRebalanceRecommendations(input)

\* evaluating the position raises an error in the service's loop body
EvaluationThrows(service, position) ==
    IF service = "real" THEN recommendForPriceThrows(position)
    ELSE analyzePositionThrows(position)

\* the array without its k-th position
Without(input, k) == SubSeq(input, 1, k - 1) \o SubSeq(input, k + 1, Len(input))

\* C11: a second call on the same unmodified array, at whatever later time,
\* returns the list the first call returned, equal in every field (the id
\* included) and in order.
C11_Idempotent ==
    engine # "none" => EngineOf(engine, positions) = recommendations

C13_ErrorContributesNothing ==
    BinEngineCalled =>
        \A i \in DOMAIN positions :
            analyzePositionThrows(positions[i]) =>
                RecommendationsFor(positions[i].id) = {}

---------------------------------------------------------------------------
(* Properties of the simulator (checked under SpecSimulate) *)

SimulateCalled == simulation.service # "none"

\* the keys of the called service's profile table (the SDK service has none)
ProfileKeys(service) ==
    CASE service = "sdk" -> {}
      [] service = "real" -> RealStrategies
      [] OTHER -> ApiStrategies

\* what a service's simulateStrategy answers, given the draw of Math.random()
SimulationOf(service, position, strategy, timeHorizon, random) ==
    CASE service = "sdk" -> SdkService_simulateStrategy(position, strategy, timeHorizon)
      [] service = "api" -> ApiService_simulateStrategy(position, strategy, timeHorizon)
      [] service = "mockapi" ->
             MockApiService_simulateStrategy(position, strategy, timeHorizon)
      [] OTHER -> RealService_simulateStrategy(position, strategy, timeHorizon, random)

\* C15: a simulateStrategy call whose strategy name is no key of the
\* service's profile table is rejected with an InvalidStrategy error: it
\* returns no result and fails with no error of another kind.
C15_UnknownStrategyRejected ==
    (SimulateCalled /\ simulation.strategy \notin ProfileKeys(simulation.service))
    => /\ simulation.outcome = "rejected"
       /\ simulation.error = "InvalidStrategy"

\* C17: a second simulateStrategy call with the same arguments returns what
\* the first one returned, equal in every field, whatever Math.random() draws.
C17_SimulationDeterministic ==
    SimulateCalled =>
        \A random \in Randoms :
            SimulationOf(simulation.service, simulation.position,
                         simulation.strategy, simulation.timeHorizon, random).result
                = simulation.result

\* the strategies a service knows: the keys of its profile table; the SDK
\* service has no table and takes the names of StrategyType
KnownStrategies(service) ==
    CASE service = "real" -> RealStrategies
      [] OTHER -> ApiStrategies

\* C24: every result simulateStrategy returns for a known strategy has its
\* confidence within [0.75, 0.95], in every service (the SDK service included)
C24_ConfidenceInBand ==
    (/\ SimulateCalled
     /\ simulation.strategy \in KnownStrategies(simulation.service)
     /\ simulation.outcome = "returned")
    => /\ simulation.result.confidence.kind = "fin"
       /\ 100 * simulation.result.confidence.num >= 75 * simulation.result.confidence.den
       /\ 100 * simulation.result.confidence.num <= 95 * simulation.result.confidence.den

---------------------------------------------------------------------------
(* Properties of the snapshots (checked under SpecErrors and SpecPortfolio) *)

\* the array is the positions of the built-in mock portfolio: the two ranges
\* around 8388608 with the distributions of generateMockBinDistribution
IsMockPortfolio(input) ==
    /\ Len(input) = 2
    /\ input[1].lowerBinId = 8388598 /\ input[1].upperBinId = 8388618
    /\ input[2].lowerBinId = 8388588 /\ input[2].upperBinId = 8388628
    /\ input[1].binDistribution
          = generateMockBinDistribution(8388598, 8388618, 8388608)
    /\ input[2].binDistribution
          = generateMockBinDistribution(8388588, 8388628, 8388608)

\* C14: in the bin-domain engine a position whose true active bin lies in
\* [lowerBinId, upperBinId], with unclaimedFees <= 50 and pnlPercentage >= -10,
\* gets no recommendation; on the mock portfolio the engine returns the empty
\* list, and the first mock position is graded Excellent.
C14_NothingToRecommend ==
    BinEngineCalled =>
        /\ \A i \in DOMAIN positions :
              ( /\ positions[i].binDistributionKind = "array"
                /\ ~OutOfRangeHolds(positions[i])
                /\ positions[i].unclaimedFees <= 5000
                /\ positions[i].pnlPercentage >= -1000 )
              => RecommendationsFor(positions[i].id) = {}
        /\ IsMockPortfolio(positions) =>
              /\ recommendations = <<>>
              /\ HealthOf(engine, positions[1].binRange.active,
                          positions[1].lowerBinId, positions[1].upperBinId)
                    = "Excellent"

\* the mock-fallback service's engine ran on the mock portfolio, whose true
\* active bins are the middle elements 8388608, and returned nothing
C14_Witness ==
    /\ engine = "mockapi"
    /\ IsMockPortfolio(positions)
    /\ findActiveBin(positions[1].binDistribution) = 8388608
    /\ findActiveBin(positions[2].binDistribution) = 8388608
    /\ recommendations = <<>>

PortfolioReturned == portfolio.outcome = "returned"

\* the sum of a field over the returned positions, stated apart from the
\* services' code
RECURSIVE TotalOf(_, _, _)
TotalOf(list, field, k) ==
    IF k = 0 THEN 0 ELSE TotalOf(list, field, k - 1) + list[k][field]

\* C18: in every PortfolioData returned, totalValue, totalPnL, the fee totals
\* (totalFeesEarned and summary.totalUnclaimedFees) are the sums of
\* currentValue, pnl and unclaimedFees over its positions, the average APR is
\* the mean of apr (0 for no position), and totalActivePositions their number.
C18_RollUpsAreSums ==
    PortfolioReturned =>
        LET data == portfolio.data
            list == data.positions
            n == Len(list)
        IN  /\ data.totalValue = TotalOf(list, "currentValue", n)
            /\ data.totalPnL = TotalOf(list, "pnl", n)
            /\ data.totalFeesEarned = TotalOf(list, "unclaimedFees", n)
            /\ data.summary.totalUnclaimedFees = TotalOf(list, "unclaimedFees", n)
            /\ data.summary.totalActivePositions = n
            /\ \A average \in {data.avgApy, data.summary.averageAPR} :
                  /\ average.kind = "fin"
                  /\ IF n = 0 THEN average.num = 0
                     ELSE average.num * n = TotalOf(list, "apr", n) * average.den

\* C19: every position of a returned snapshot carries the grade the service's
\* calculateHealth gives for (binRange.active, lowerBinId, upperBinId).
C19_HealthFromClassifier ==
    PortfolioReturned =>
        \A i \in DOMAIN portfolio.data.positions :
            LET position == portfolio.data.positions[i]
            IN  position.health
                   = HealthOf(portfolio.service, position.binRange.active,
                              position.lowerBinId, position.upperBinId)

\* the fetch of the called service failed: the public key could not be read,
\* the SDK query or the REST request threw, or the answer was no array
FetchFailed ==
    \/ portfolio.fetch.publicKey = "null"
    \/ portfolio.service = "sdk" /\ portfolio.fetch.findPosition.kind # "array"
    \/ portfolio.service = "api" /\ portfolio.fetch.poolPositions.kind # "array"

\* C20: when the fetch fails, getPortfolioData returns no data (no mock
\* positions in particular): the call is rejected with the error.
C20_NoFabricatedData ==
    (portfolio.service # "none" /\ FetchFailed) =>
        /\ portfolio.outcome = "rejected"
        /\ portfolio.data.positions = <<>>

\* a returned position's pnlPercentage as a quotient of hundredths of a
\* percent: the REST service computes a quotient, the mock and the
\* SDK-converted positions hold a number
PnlPercentageOf(position) ==
    IF portfolio.service = "api" THEN position.pnlPercentage
    ELSE Whole(position.pnlPercentage)

\* the quotient q is the number n / d times scale (d # 0), both in lowest terms
IsRatio(q, n, d, scale) ==
    q.kind = "fin" /\ Quotient(q.num, q.den) = Quotient(n * scale, d)

IsZero(q) == q.kind = "fin" /\ q.num = 0

\* C25: in every snapshot returned, a position's pnlPercentage is
\* pnl / (currentValue - pnl) * 100 when currentValue - pnl is not zero and 0
\* when it is zero, and the portfolio's totalPnLPercentage is 0 when
\* totalValue - totalPnL is zero
C25_PnlPercentage ==
    PortfolioReturned =>
        /\ \A i \in DOMAIN portfolio.data.positions :
              LET position == portfolio.data.positions[i]
                  denominator == position.currentValue - position.pnl
              IN  IF denominator # 0
                  THEN IsRatio(PnlPercentageOf(position), position.pnl, denominator, 10000)
                  ELSE IsZero(PnlPercentageOf(position))
        /\ portfolio.data.totalValue - portfolio.data.totalPnL = 0
              => IsZero(portfolio.data.totalPnLPercentage)

---------------------------------------------------------------------------
(* Properties of the calls' effect on their inputs *)

\* C21: generateRebalanceRecommendations and calculateHealth leave their
\* inputs unchanged: across every call the positions array keeps its length,
\* its order and every field of every position, and the three bins handed to
\* calculateHealth keep their values
C21_InputsUnchanged ==
    [][/\ positions' = positions
       /\ health'.activeBin = health.activeBin
       /\ health'.lowerBin = health.lowerBin
       /\ health'.upperBin = health.upperBin]_vars

\* both the bin-domain engine and the classifier have returned on a snapshot
\* of several positions, the engine with recommendations
C21_Witness ==
    /\ engine = "api"
    /\ health.service # "none"
    /\ Len(positions) > 1
    /\ Len(recommendations) > 0

---------------------------------------------------------------------------
(* Properties of the active-bin lookup *)

LookupCalled == lookup.service # "none"

\* the bin at index i (from 1) has liquidity on both sides
BothSides(i) ==
    lookup.distribution[i].liquidityX > 0 /\ lookup.distribution[i].liquidityY > 0

\* C22: findActiveBin returns 0 for an empty distribution, else the binId of
\* the first element with liquidityX > 0 and liquidityY > 0, else the binId of
\* the element at index floor(length / 2) (counted from 0)
C22_ActiveBinLookup ==
    LookupCalled =>
        LET d == lookup.distribution
        IN  /\ Len(d) = 0 => lookup.result = 0
            /\ \A i \in 1..Len(d) :
                   BothSides(i) /\ (\A j \in 1..(i - 1) : ~BothSides(j))
                       => lookup.result = d[i].binId
            /\ Len(d) > 0 /\ (\A i \in 1..Len(d) : ~BothSides(i))
                   => lookup.result = d[(Len(d) \div 2) + 1].binId

\* a lookup in three bins whose first bin has liquidity on one side only and
\* whose other two have it on both: the second bin is returned
C22_Witness ==
    /\ LookupCalled
    /\ Len(lookup.distribution) = 3
    /\ lookup.distribution[1].liquidityX > 0
    /\ ~BothSides(1) /\ BothSides(2) /\ BothSides(3)
    /\ lookup.result = lookup.distribution[2].binId

---------------------------------------------------------------------------
(* Properties of the price-domain engine *)

PriceEngineCalled == engine = "real"

\* the recommendations returned for the position at index k
PriceRecommendationsAt(k) ==
    SelectSeq(recommendations, LAMBDA r : r.positionId = positions[k].id)

\* the position at index k has exactly one recommendation, of this kind
OnlyRecommendation(k, type, priority, executionType) ==
    /\ Len(PriceRecommendationsAt(k)) = 1
    /\ PriceRecommendationsAt(k)[1].type = type
    /\ PriceRecommendationsAt(k)[1].priority = priority
    /\ PriceRecommendationsAt(k)[1].executionType = executionType

\* C23: the price-domain engine returns at most one recommendation per
\* position; with u = (current - min) / (max - min) on a range of positive
\* width, u < 0.1 gives rebalance / high / shift_up, u > 0.9 gives rebalance /
\* high / shift_down, 0.1 <= u < 0.2 or 0.8 < u <= 0.9 gives expand / medium and
\* 0.2 <= u <= 0.8 gives none; the list is in descending priority weight
C23_PriceThresholds ==
    PriceEngineCalled =>
        /\ \A k \in 1..Len(positions) :
              LET r == positions[k].priceRange
                  width == r.max - r.min
                  part == r.current - r.min
              IN  /\ Len(PriceRecommendationsAt(k)) <= 1
                  /\ width > 0 =>
                        /\ 10 * part < width
                              => OnlyRecommendation(k, "rebalance", "high", "shift_up")
                        /\ 10 * part > 9 * width
                              => OnlyRecommendation(k, "rebalance", "high", "shift_down")
                        /\ \/ width <= 10 * part /\ 10 * part < 2 * width
                           \/ 8 * width < 10 * part /\ 10 * part <= 9 * width
                              => OnlyRecommendation(k, "expand", "medium", Undefined)
                        /\ 2 * width <= 10 * part /\ 10 * part <= 8 * width
                              => Len(PriceRecommendationsAt(k)) = 0
        /\ \A i, j \in 1..Len(recommendations) :
              i < j => PriorityRank(recommendations[i].priority)
                           >= PriorityRank(recommendations[j].priority)

\* a call on three positions at utilization 0.1, 0.2 and 0.91: the third one's
\* rebalance comes first, the first one's expand second, the second has none
C23_Witness ==
    /\ PriceEngineCalled
    /\ Len(positions) = 3
    /\ positions[1].priceRange = [min |-> 0, max |-> 100, current |-> 10]
    /\ positions[2].priceRange = [min |-> 0, max |-> 100, current |-> 20]
    /\ positions[3].priceRange = [min |-> 0, max |-> 100, current |-> 91]
    /\ Len(recommendations) = 2
    /\ recommendations[1].positionId = positions[3].id
    /\ recommendations[1].executionType = "shift_down"
    /\ recommendations[2].positionId = positions[1].id
    /\ recommendations[2].type = "expand"

---------------------------------------------------------------------------
(* Properties of every recommendation list (checked under Spec) *)

\* the (type, priority) pairs the engines' rules carry
RecommendationKinds ==
    { <<"rebalance", "high">>, <<"expand", "medium">>, <<"exit", "high">> }

\* C30: every recommendation returned refers to a position of the input
\* array, carries one of the pairs rebalance / high, expand / medium and
\* exit / high, and each input position has at most three recommendations in
\* the bin-domain engines and at most one in the price-domain engine; an
\* empty input yields an empty list
C30_WellFormedList ==
    engine # "none" =>
        /\ \A i \in 1..Len(recommendations) :
              /\ \E k \in 1..Len(positions) :
                    positions[k].id = recommendations[i].positionId
              /\ <<recommendations[i].type, recommendations[i].priority>>
                    \in RecommendationKinds
        /\ \A k \in 1..Len(positions) :
              Cardinality(RecommendationsFor(positions[k].id))
                  <= (IF engine = "real" THEN 1 ELSE 3)
        /\ positions = <<>> => recommendations = <<>>

\* a bin-domain call on two positions: the first has all three
\* recommendations, the second none
C30_Witness ==
    /\ engine = "mockapi"
    /\ Len(positions) = 2
    /\ Cardinality(RecommendationsFor(positions[1].id)) = 3
    /\ Cardinality(RecommendationsFor(positions[2].id)) = 0
    /\ Len(recommendations) = 3

---------------------------------------------------------------------------
(* Properties of the App and of WalletService.connect (checked under SpecApp) *)

LoadInFlight == Len(app.loads) > 0

\* C26: portfolio data never outlives the wallet session: whenever
\* walletState.connected is false, portfolioData is null, also when a
\* loadPortfolioData call started before the disconnect resumes after it
C26_NoDataWhenDisconnected ==
    ~app.walletState.connected => app.portfolioData = "null"

\* C27: whenever no loadPortfolioData call is in flight and portfolioData is
\* not null, portfolioData was loaded for the current walletState.publicKey
C27_DataOfCurrentAccount ==
    (~LoadInFlight /\ app.portfolioData # "null")
        => app.portfolioData = app.walletState.publicKey

\* C28: loading is true whenever a loadPortfolioData call has started and
\* not finished
C28_LoadingWhileInFlight ==
    LoadInFlight => app.loading

====
